---- MODULE Spec2Model ----
(***************************************************************************)
(* The research-session client of ValueStorm's Vue UI: the Vuex store      *)
(* (views/HomeView.vue, second half), the ResearchView component with its  *)
(* setInterval progress poller (views/ResearchView.vue), the HomeView and  *)
(* ResultsView pages that load and show results, and the remote research   *)
(* server they talk to, seen only through its responses.                   *)
(*                                                                         *)
(* Spec is the research page with its poller; SpecStore is the store as    *)
(* all three pages drive it; SpecLive is the research page left mounted,   *)
(* with fairness of ticks and responses; SpecApi is the axios instance of  *)
(* the api module with its interceptors.                                   *)
(*                                                                         *)
(* JavaScript runs one callback at a time, so every action below is one    *)
(* callback run to its next await: an event handler, a timer tick, or the  *)
(* continuation of an awaited request.                                     *)
(***************************************************************************)
EXTENDS Integers, FiniteSets, Sequences, TLC

\* ------------------------------------------------------------- bounds
MaxInstances == 2   \* ResearchView component instances ever created
MaxTimers    == 2   \* setInterval handles ever allocated
MaxSessions  == 2   \* sessions the server ever creates
MaxFetches   == 2   \* progress fetches ever issued
MaxStartReqs == 2   \* start requests ever issued
MaxTopicReqs == 1   \* topic requests awaiting their response
MaxResultsReqs   == 1   \* result-list requests awaiting their response
MaxResultViews   == 1   \* ResultsView component instances ever created
MaxResultFetches == 1   \* single-result fetches awaiting their response
MaxApiCalls      == 3   \* calls ever made through the `api` instance

Instances == 1..MaxInstances
Timers    == 1..MaxTimers
Sessions  == 1..MaxSessions

\* ------------------------------------------------------------- values
\* The form's inputs: v-model="topic" (a previous topic, typed text, or
\* nothing) and the <select> of depths, whose values are "1", "2", "3".
Topics == {"", "quantum computing"}
DepthOptions == {"1", "2", "3"}

\* parseInt(this.depth) over the option strings of the <select>.
ParseInt(s) == CASE s = "1" -> 1 [] s = "2" -> 2 [] s = "3" -> 3

\* The topic lists the server may answer GET /research/topics with.
TopicLists == {<<"quantum computing">>}

\* A JavaScript object is a function from the names of its own properties;
\* null is kept apart from every object by its property-free domain.
Null == [f \in {} |-> 0]
Has(o, f) == f \in DOMAIN o

\* A spread in which the first object's properties win.
Spread_TargetWins(a, b) ==
  [f \in (DOMAIN a) \cup (DOMAIN b) |-> IF f \in DOMAIN a THEN a[f] ELSE b[f]]

\* Object spread {...a, ...b}: b's properties win, a's others are kept;
\* spreading null contributes nothing.
Spread(a, b) ==
  [f \in (DOMAIN a) \cup (DOMAIN b) |-> IF f \in DOMAIN b THEN b[f] ELSE a[f]]

Terminal == {"completed", "failed"}
Rank(s) == CASE s = "pending" -> 0 [] s = "in_progress" -> 1 [] OTHER -> 2

VARIABLES
  researchTopics,    \* store state.researchTopics
  currentResearch,   \* store state.currentResearch (the tracked session)
  loading,           \* store state.loading
  error,             \* store state.error
  view,              \* the mounted ResearchView instance, 0 when none is
  instState,         \* per instance: "none", "mounted", "unmounted"
  researchInterval,  \* per instance: this.researchInterval (0 is null)
  timerActive,       \* per setInterval handle: still scheduled
  timerOwner,        \* per handle: the instance whose closure it runs (0: unallocated)
  cancelled,         \* history: how clearInterval was last called on the handle
  srv,               \* server: per session "none" or its status
  serverEchoes,      \* server: whether its descriptors carry topic and depth
  starts,            \* start requests in flight
  fetches,           \* progress fetches in flight
  fetchCount,        \* progress fetches issued so far
  startCount,        \* start requests issued so far
  topicReqs,         \* topic requests in flight
  rejected,          \* history: the form's last submit returned at once
  researchResults,   \* store state.researchResults
  page,              \* the routed page when it is not ResearchView: "", "home", "results"
  rvCount,           \* ResultsView instances created so far; the last one is on "results"
  selectedId,        \* the mounted ResultsView's this.selectedId (0 is null)
  selectedResult,    \* the mounted ResultsView's this.selectedResult
  resultsReqs,       \* result-list requests in flight
  resultFetches,     \* single-result fetches in flight
  apiLog,            \* what the `api` instance's interceptor wrote to console.error
  apiPending,        \* the promise the interceptor returned, until the caller's await resumes
  apiReturned        \* what calls through `api` handed their callers, in order

vars == <<researchTopics, currentResearch, loading, error, view, instState,
          researchInterval, timerActive, timerOwner, cancelled, srv,
          serverEchoes, starts, fetches, fetchCount, startCount, topicReqs,
          rejected, researchResults, page, rvCount, selectedId,
          selectedResult, resultsReqs, resultFetches, apiLog, apiPending,
          apiReturned>>

storeVars  == <<researchTopics, currentResearch, loading, error>>
timerVars  == <<timerActive, timerOwner, cancelled, researchInterval>>
viewVars   == <<view, instState, rejected>>
netVars    == <<starts, fetches, fetchCount, startCount, topicReqs>>
serverVars == <<srv, serverEchoes>>
apiVars == <<apiLog, apiPending, apiReturned>>
resultsVars == <<researchResults, rvCount, selectedId, selectedResult,
                 resultsReqs, resultFetches>>

\* ------------------------------------------------------------- server
CompletedTime == "2025-01-01T00:00:00Z"
ProgressOf(st) ==
  CASE st = "pending" -> 0 [] st = "in_progress" -> 40
    [] st = "completed" -> 100 [] OTHER -> 40

\* POST /research/start answers with the new session's descriptor.
Descriptor(sid, topic, depth) ==
  LET base == [f \in {"id", "status", "progress"} |->
                 CASE f = "id" -> sid [] f = "status" -> "pending" [] OTHER -> 0]
      echo == [f \in {"topic", "depth"} |-> IF f = "topic" THEN topic ELSE depth]
  IN IF serverEchoes THEN Spread(base, echo) ELSE base

\* GET /research/progress/{id} answers with a partial session: status and
\* progress, completedTime once the job has ended, and the id when the
\* server echoes the session's identity. An id the server does not know
\* gets no session body (Null).
ProgressData(sid) ==
  IF sid \notin Sessions \/ srv[sid] = "none" THEN Null ELSE
  LET st   == srv[sid]
      core == [f \in {"status", "progress"} |->
                 IF f = "status" THEN st ELSE ProgressOf(st)]
      done == IF st \in Terminal
              THEN [f \in {"completedTime"} |-> CompletedTime] ELSE Null
      ident == IF serverEchoes THEN [f \in {"id"} |-> sid] ELSE Null
  IN Spread(Spread(core, done), ident)

\* The lists the server may answer GET /research/results with; a summary
\* is stood for by the id it carries.
ResultLists == {<<1>>, <<2, 1>>}

\* GET /research/results/{id} answers with the full result.
ResultBody(id) ==
  [f \in {"id", "summary"} |-> IF f = "id" THEN id ELSE "findings"]

\* The JSON body the server sends along with an error status.
ErrorBody == [f \in {"error"} |-> "Research session not found"]

\* ------------------------------------------------------------- transport
\* The timeout, in ms, of the HTTP client a call goes through; 0 is none.
\* The store's actions call the global axios, whose default is no
\* timeout, and the views call fetch(), which has none. The axios
\* instance `api` with its 30 s timeout is imported by neither.
AxiosTimeout == 0
FetchTimeout == 0
TimeoutOf(call) ==
  CASE call \in {"fetchResearchTopics", "startResearch", "fetchResearchResults"}
         -> AxiosTimeout
    [] call \in {"progress", "viewResult"} -> FetchTimeout

\* ------------------------------------------------------------- timers
NextTimer == Cardinality({t \in Timers : timerOwner[t] # 0}) + 1
NextInstance == Cardinality({i \in Instances : instState[i] # "none"}) + 1
NextSession == Cardinality({s \in Sessions : srv[s] # "none"}) + 1

\* clearInterval(h): the handle stops firing; clearing null or a handle
\* that was cleared before does nothing.
ClearInterval(active, h) ==
  IF h = 0 THEN active ELSE [active EXCEPT ![h] = FALSE]

\* History of clearInterval calls, by the caller.
NoteCancel(c, h, who) ==
  IF h = 0 \/ c[h] # "no" THEN c ELSE [c EXCEPT ![h] = who]

TypeOK ==
  /\ loading \in BOOLEAN
  /\ view \in 0..MaxInstances
  /\ fetchCount \in 0..MaxFetches
  /\ startCount \in 0..MaxStartReqs
  /\ topicReqs \in 0..MaxTopicReqs
  /\ \A i \in Instances : researchInterval[i] \in 0..MaxTimers

Init ==
  /\ researchTopics = <<>>
  /\ currentResearch = Null
  /\ loading = FALSE
  /\ error = "null"
  /\ view = 0
  /\ instState = [i \in Instances |-> "none"]
  /\ researchInterval = [i \in Instances |-> 0]
  /\ timerActive = [t \in Timers |-> FALSE]
  /\ timerOwner = [t \in Timers |-> 0]
  /\ cancelled = [t \in Timers |-> "no"]
  /\ srv = [s \in Sessions |-> "none"]
  /\ serverEchoes \in BOOLEAN
  /\ starts = {}
  /\ fetches = {}
  /\ fetchCount = 0
  /\ startCount = 0
  /\ topicReqs = 0
  /\ rejected = FALSE
  /\ researchResults = <<>>
  /\ page = ""
  /\ rvCount = 0
  /\ selectedId = 0
  /\ selectedResult = Null
  /\ resultsReqs = {}
  /\ resultFetches = {}
  /\ apiLog = <<>>
  /\ apiPending = Null
  /\ apiReturned = <<>>

\* ------------------------------------------------------------- store
StatusOf(o) == IF Has(o, "status") THEN o["status"] ELSE "undefined"

\* o.id, with 0 for JavaScript's undefined.
IdOf(o) == IF Has(o, "id") THEN o["id"] ELSE 0

\* mutations SET_RESEARCH_TOPICS, SET_RESEARCH_RESULTS, SET_LOADING: the
\* field becomes the payload.
SET_RESEARCH_TOPICS(topics) == topics

\* SET_RESEARCH_RESULTS pushing the payload onto the list it has.
SET_RESEARCH_RESULTS_Push(results) == researchResults \o results
SET_RESEARCH_RESULTS(results) == results

\* SET_LOADING that never lowers the flag.
SET_LOADING_Sticky(isLoading) == loading \/ isLoading
SET_LOADING(isLoading) == isLoading

\* The messages the load actions commit with SET_ERROR in their catch.
\* fetchResearchTopics with the message of another action.
TopicsError_CopyPaste == "Failed to start research"
TopicsError == "Failed to fetch research topics"
ResultsError == "Failed to fetch research results"

\* mutation SET_CURRENT_RESEARCH: the tracked session becomes the payload.
SET_CURRENT_RESEARCH(research) == research

\* The poller's commit without the spread of the tracked session.
MergedResearch_Replace(data) == SET_CURRENT_RESEARCH(data)

\* What the poller commits when a progress response arrives: the tracked
\* session as it is now, overlaid with the response's data.
MergedResearch(data) == SET_CURRENT_RESEARCH(Spread(currentResearch, data))

\* What the store's startResearch action commits on success.
StartedResearch(m, sid) ==
  SET_CURRENT_RESEARCH(Descriptor(sid, m.topic, m.depth))

\* ------------------------------------------------------------- view
\* The router takes the ResultsView instance away; its data go with it.
\* Neither HomeView nor ResultsView has an unmount hook.
LeaveResults == selectedId' = 0 /\ selectedResult' = Null

\* startProgressPolling(): clear the instance's existing interval, then
\* schedule a new one and keep its handle in this.researchInterval.
StartProgressPolling(i) ==
  LET old == researchInterval[i]
      t   == NextTimer
  IN /\ t <= MaxTimers
     /\ timerActive' = [ClearInterval(timerActive, old) EXCEPT ![t] = TRUE]
     /\ timerOwner' = [timerOwner EXCEPT ![t] = i]
     /\ cancelled' = NoteCancel(cancelled, old, "replaced")
     /\ researchInterval' = [researchInterval EXCEPT ![i] = t]

\* The view's unmount hook without its clearInterval.
UnmountedTimers_NoClear(i) == timerActive

\* The handles still scheduled once beforeUnmount() of instance i returned.
UnmountedTimers(i) == ClearInterval(timerActive, researchInterval[i])

\* The handles still scheduled once a tick or a response of instance i saw
\* the status 'completed' and called clearInterval(this.researchInterval).
CompletedTimers(i) == ClearInterval(timerActive, researchInterval[i])

\* mounted(): dispatch fetchResearchTopics (which raises the loading flag
\* and issues its request), then poll if a session is tracked whose status
\* is not 'completed'.
Mount ==
  /\ view = 0
  /\ NextInstance <= MaxInstances
  /\ topicReqs < MaxTopicReqs
  /\ LET i == NextInstance IN
     /\ view' = i
     /\ instState' = [instState EXCEPT ![i] = "mounted"]
     /\ loading' = SET_LOADING(TRUE)
     /\ topicReqs' = topicReqs + 1
     /\ IF currentResearch # Null /\ StatusOf(currentResearch) # "completed"
        THEN StartProgressPolling(i)
        ELSE UNCHANGED timerVars
  /\ UNCHANGED <<researchTopics, currentResearch, error, serverVars, starts,
                 fetches, fetchCount, startCount, rejected>>
  /\ page' = ""
  /\ LeaveResults
  /\ UNCHANGED <<researchResults, rvCount, resultsReqs, resultFetches>>
  /\ UNCHANGED apiVars

\* beforeUnmount(): clear the interval if there is one; the router then
\* removes the instance.
BeforeUnmount ==
  /\ view # 0
  /\ LET i == view IN
     /\ view' = 0
     /\ instState' = [instState EXCEPT ![i] = "unmounted"]
     /\ timerActive' = UnmountedTimers(i)
     /\ cancelled' = NoteCancel(cancelled, researchInterval[i], "unmount")
  /\ rejected' = FALSE
  /\ UNCHANGED <<storeVars, researchInterval, timerOwner, serverVars, netVars>>
  /\ UNCHANGED <<page, resultsVars>>
  /\ UNCHANGED apiVars

\* The view's startResearch() up to its await, with the store action it
\* dispatches up to the store's await: nothing happens on an empty topic;
\* otherwise the loading flag is raised and POST /research/start leaves.
\* The button is disabled while the component's own loading flag is set,
\* the Enter key is not, so a start can be submitted at any time. The
\* component's own loading and error fields steer nothing below and are
\* left out.
StartResearch(topic, depth) ==
  /\ view # 0
  /\ rejected' = (topic = "")
  /\ IF topic = ""
     THEN UNCHANGED <<storeVars, view, instState, timerVars, serverVars, netVars>>
     ELSE /\ startCount < MaxStartReqs
          /\ loading' = SET_LOADING(TRUE)
          /\ startCount' = startCount + 1
          /\ starts' = starts \cup {[n |-> startCount + 1, inst |-> view,
                                     topic |-> topic, depth |-> ParseInt(depth)]}
          /\ UNCHANGED <<researchTopics, currentResearch, error, view, instState,
                         timerVars, serverVars, fetches, fetchCount, topicReqs>>
  /\ UNCHANGED <<page, resultsVars>>
  /\ UNCHANGED apiVars

\* The start request succeeds: the server creates the session; the store
\* commits the descriptor, clears the error and the loading flag; the
\* view's continuation starts polling, on the instance that dispatched,
\* mounted or not.
StartResponse(m) ==
  /\ m \in starts
  /\ NextSession <= MaxSessions
  /\ LET sid == NextSession IN
     /\ srv' = [srv EXCEPT ![sid] = "pending"]
     /\ currentResearch' = StartedResearch(m, sid)
  /\ error' = "null"
  /\ loading' = SET_LOADING(FALSE)
  /\ StartProgressPolling(m.inst)
  /\ starts' = starts \ {m}
  /\ UNCHANGED <<researchTopics, view, instState, serverEchoes,
                 fetches, fetchCount, startCount, topicReqs, rejected>>
  /\ UNCHANGED <<page, resultsVars>>
  /\ UNCHANGED apiVars

\* A failing start whose error the store swallows, so that the view's
\* continuation starts polling.
StartFail_Swallowed(m) ==
  /\ m \in starts
  /\ error' = "Failed to start research"
  /\ loading' = SET_LOADING(FALSE)
  /\ starts' = starts \ {m}
  /\ StartProgressPolling(m.inst)
  /\ UNCHANGED <<researchTopics, currentResearch, view, instState,
                 serverVars, fetches, fetchCount, startCount, topicReqs, rejected>>
  /\ UNCHANGED <<page, resultsVars>>
  /\ UNCHANGED apiVars

\* A failing start whose handler also drops the tracked session.
StartFail_Reset(m) ==
  /\ m \in starts
  /\ error' = "Failed to start research"
  /\ loading' = SET_LOADING(FALSE)
  /\ currentResearch' = SET_CURRENT_RESEARCH(Null)
  /\ starts' = starts \ {m}
  /\ UNCHANGED <<researchTopics, view, instState, timerVars,
                 serverVars, fetches, fetchCount, startCount, topicReqs, rejected>>
  /\ UNCHANGED <<page, resultsVars>>
  /\ UNCHANGED apiVars

\* The start request fails, with an error status, without a response or
\* before it was sent (axios rejects on all three): the store records its
\* message, lowers the loading flag and rethrows; the view's catch does
\* not start polling.
StartFail(m) ==
  /\ m \in starts
  /\ error' = "Failed to start research"
  /\ loading' = SET_LOADING(FALSE)
  /\ starts' = starts \ {m}
  /\ UNCHANGED <<researchTopics, currentResearch, view, instState, timerVars,
                 serverVars, fetches, fetchCount, startCount, topicReqs, rejected>>
  /\ UNCHANGED <<page, resultsVars>>
  /\ UNCHANGED apiVars

\* One firing of the interval callback of handle t, up to its await. The
\* server answers from the session's state at this moment; the response
\* then travels for as long as it likes, so responses can overtake.
Tick(t) ==
  /\ timerActive[t]
  /\ LET i == timerOwner[t] IN
     IF currentResearch # Null /\ StatusOf(currentResearch) = "completed"
     THEN /\ timerActive' = CompletedTimers(i)
          /\ cancelled' = NoteCancel(cancelled, researchInterval[i], "self")
          /\ UNCHANGED <<storeVars, viewVars, researchInterval, timerOwner,
                         serverVars, netVars>>
     ELSE IF currentResearch = Null
     THEN \* this.currentResearch.id throws inside the try: logged only
          UNCHANGED vars
     ELSE /\ fetchCount < MaxFetches
          /\ fetches' = fetches \cup
               {[n |-> fetchCount + 1, timer |-> t, inst |-> i,
                 sid |-> IdOf(currentResearch),
                 data |-> ProgressData(IdOf(currentResearch))]}
          /\ fetchCount' = fetchCount + 1
          /\ UNCHANGED <<storeVars, viewVars, timerVars, serverVars, starts,
                         startCount, topicReqs>>
  /\ UNCHANGED <<page, resultsVars>>
  /\ UNCHANGED apiVars

\* A progress response arrives and parses: commit the merge, and clear the
\* instance's interval when the data says 'completed'.
PollResponse(m) ==
  /\ m \in fetches
  /\ m.data # Null
  /\ currentResearch' = MergedResearch(m.data)
  /\ IF StatusOf(m.data) = "completed"
     THEN /\ timerActive' = CompletedTimers(m.inst)
          /\ cancelled' = NoteCancel(cancelled, researchInterval[m.inst], "self")
     ELSE UNCHANGED <<timerActive, cancelled>>
  /\ fetches' = fetches \ {m}
  /\ UNCHANGED <<researchTopics, loading, error, viewVars, researchInterval,
                 timerOwner, serverVars, starts, fetchCount, startCount, topicReqs>>
  /\ UNCHANGED <<page, resultsVars>>
  /\ UNCHANGED apiVars

\* A progress response arrives with an error status and a JSON body. fetch()
\* resolves on any status and the callback does not look at response.ok:
\* the body is committed like progress data; it has no status field, so
\* the interval is left alone.
PollErrorBody(m) ==
  /\ m \in fetches
  /\ currentResearch' = MergedResearch(ErrorBody)
  /\ fetches' = fetches \ {m}
  /\ UNCHANGED <<researchTopics, loading, error, viewVars, timerVars,
                 serverVars, starts, fetchCount, startCount, topicReqs>>
  /\ UNCHANGED <<page, resultsVars>>
  /\ UNCHANGED apiVars

\* A poller that gives up on its first failed fetch.
PollFail_GiveUp(m) ==
  /\ m \in fetches
  /\ fetches' = fetches \ {m}
  /\ timerActive' = ClearInterval(timerActive, m.timer)
  /\ UNCHANGED <<storeVars, viewVars, timerOwner, cancelled, researchInterval,
                 serverVars, starts, fetchCount, startCount, topicReqs>>
  /\ UNCHANGED <<page, resultsVars>>
  /\ UNCHANGED apiVars

\* A progress fetch rejects (or its body does not parse): logged only.
PollFail(m) ==
  /\ m \in fetches
  /\ fetches' = fetches \ {m}
  /\ UNCHANGED <<storeVars, viewVars, timerVars, serverVars, starts, fetchCount,
                 startCount, topicReqs>>
  /\ UNCHANGED <<page, resultsVars>>
  /\ UNCHANGED apiVars

\* fetchResearchTopics after its await, on success and on failure.
TopicsResponse(list) ==
  /\ topicReqs > 0
  /\ topicReqs' = topicReqs - 1
  /\ researchTopics' = SET_RESEARCH_TOPICS(list)
  /\ error' = "null"
  /\ loading' = SET_LOADING(FALSE)
  /\ UNCHANGED <<currentResearch, viewVars, timerVars, serverVars, starts,
                 fetches, fetchCount, startCount>>
  /\ UNCHANGED <<page, resultsVars>>
  /\ UNCHANGED apiVars

TopicsFail ==
  /\ topicReqs > 0
  /\ topicReqs' = topicReqs - 1
  /\ error' = TopicsError
  /\ loading' = SET_LOADING(FALSE)
  /\ UNCHANGED <<researchTopics, currentResearch, viewVars, timerVars,
                 serverVars, starts, fetches, fetchCount, startCount>>
  /\ UNCHANGED <<page, resultsVars>>
  /\ UNCHANGED apiVars

\* ------------------------------------------------------------- results
Range(seq) == {seq[k] : k \in DOMAIN seq}

\* A number no request of the set in flight carries.
FreeN(inflight, max) == CHOOSE n \in 1..max : \A r \in inflight : r.n # n

\* The store's fetchResearchResults up to its await: raise the loading
\* flag and issue GET /research/results. The request remembers who
\* dispatched it and, for ResultsView, the ?id= of the page's URL.
FetchResearchResults(from, inst, urlId) ==
  /\ Cardinality(resultsReqs) < MaxResultsReqs
  /\ loading' = SET_LOADING(TRUE)
  /\ resultsReqs' = resultsReqs \cup
       {[n |-> FreeN(resultsReqs, MaxResultsReqs), from |-> from,
         inst |-> inst, urlId |-> urlId]}

\* HomeView's mounted(): dispatch fetchResearchResults.
HomeMount ==
  /\ view = 0 /\ page # "home"
  /\ page' = "home"
  /\ LeaveResults
  /\ FetchResearchResults("home", 0, 0)
  /\ UNCHANGED <<researchTopics, currentResearch, error, viewVars, timerVars,
                 serverVars, netVars, researchResults, rvCount, resultFetches>>
  /\ UNCHANGED apiVars

\* ResultsView's mounted() up to its await; urlId is the id in the URL the
\* page was opened with, 0 when it has none.
ResultsMount(urlId) ==
  /\ view = 0 /\ page # "results"
  /\ rvCount < MaxResultViews
  /\ page' = "results"
  /\ rvCount' = rvCount + 1
  /\ LeaveResults
  /\ FetchResearchResults("results", rvCount + 1, urlId)
  /\ UNCHANGED <<researchTopics, currentResearch, error, viewVars, timerVars,
                 serverVars, netVars, researchResults, resultFetches>>
  /\ UNCHANGED apiVars

\* viewResult(id) up to its await: remember the id, then fetch the result.
ViewResult(id) ==
  /\ Cardinality(resultFetches) < MaxResultFetches
  /\ selectedId' = id
  /\ resultFetches' = resultFetches \cup
       {[n |-> FreeN(resultFetches, MaxResultFetches), inst |-> rvCount,
         id |-> id]}

\* Whether the ResultsView instance that issued request m is on the page.
OnPage(m) == page = "results" /\ m.inst = rvCount

\* The rest of ResultsView's mounted(), run when its dispatch settles,
\* whichever way: view the result the URL names, if it names one. An
\* instance that has left the page finds no id in the URL.
MountedContinuation(m) ==
  IF m.from = "results" /\ OnPage(m) /\ m.urlId # 0
  THEN ViewResult(m.urlId)
  ELSE UNCHANGED <<selectedId, resultFetches>>

\* fetchResearchResults after its await, on success and on failure.
ResultsResponse(m, list) ==
  /\ m \in resultsReqs
  /\ resultsReqs' = resultsReqs \ {m}
  /\ researchResults' = SET_RESEARCH_RESULTS(list)
  /\ error' = "null"
  /\ loading' = SET_LOADING(FALSE)
  /\ MountedContinuation(m)
  /\ UNCHANGED <<researchTopics, currentResearch, viewVars, timerVars,
                 serverVars, netVars, page, rvCount, selectedResult>>
  /\ UNCHANGED apiVars

ResultsFail(m) ==
  /\ m \in resultsReqs
  /\ resultsReqs' = resultsReqs \ {m}
  /\ error' = ResultsError
  /\ loading' = SET_LOADING(FALSE)
  /\ MountedContinuation(m)
  /\ UNCHANGED <<researchTopics, currentResearch, viewVars, timerVars,
                 serverVars, netVars, researchResults, page, rvCount,
                 selectedResult>>
  /\ UNCHANGED apiVars

\* A click on a result card. The cards are rendered only while the store
\* is not loading, holds no error, and no result is selected.
ClickResult(id) ==
  /\ page = "results"
  /\ ~loading /\ error = "null" /\ selectedResult = Null
  /\ id \in Range(researchResults)
  /\ ViewResult(id)
  /\ UNCHANGED <<storeVars, viewVars, timerVars, serverVars, netVars,
                 researchResults, page, rvCount, selectedResult, resultsReqs>>
  /\ UNCHANGED apiVars

\* The single-result fetch resolves and its body parses: the instance
\* keeps the body as its selected result, whatever the HTTP status was.
\* fetch() resolves on an error status too, and viewResult does not look
\* at response.ok.
Selected(m, body) == IF OnPage(m) THEN body ELSE selectedResult

\* A result that is also kept in the store's list.
ResultArrives_Cached(m) ==
  /\ m \in resultFetches
  /\ resultFetches' = resultFetches \ {m}
  /\ selectedResult' = Selected(m, ResultBody(m.id))
  /\ researchResults' = Append(researchResults, m.id)
  /\ UNCHANGED <<storeVars, viewVars, timerVars, serverVars, netVars,
                 page, rvCount, selectedId, resultsReqs>>
  /\ UNCHANGED apiVars

ResultArrives(m) ==
  /\ m \in resultFetches
  /\ resultFetches' = resultFetches \ {m}
  /\ selectedResult' = Selected(m, ResultBody(m.id))
  /\ UNCHANGED <<storeVars, viewVars, timerVars, serverVars, netVars,
                 researchResults, page, rvCount, selectedId, resultsReqs>>
  /\ UNCHANGED apiVars

ResultErrorBody(m) ==
  /\ m \in resultFetches
  /\ resultFetches' = resultFetches \ {m}
  /\ selectedResult' = Selected(m, ErrorBody)
  /\ UNCHANGED <<storeVars, viewVars, timerVars, serverVars, netVars,
                 researchResults, page, rvCount, selectedId, resultsReqs>>
  /\ UNCHANGED apiVars

\* The single-result fetch rejects, or its body does not parse: the catch
\* commits SET_ERROR.
ResultFail(m) ==
  /\ m \in resultFetches
  /\ resultFetches' = resultFetches \ {m}
  /\ error' = "Failed to load research result"
  /\ UNCHANGED <<researchTopics, currentResearch, loading, viewVars, timerVars,
                 serverVars, netVars, researchResults, page, rvCount,
                 selectedId, selectedResult, resultsReqs>>
  /\ UNCHANGED apiVars

\* ------------------------------------------------------------- api
\* What axios settles a call of the `api` instance with, before the
\* response interceptor: a response with a 2xx status, or an error object
\* with the status of the response it carries (0: it carries none) and
\* whether the request was made.
ApiResults ==
  {r \in [kind : {"response", "error"}, status : {0, 200, 404, 500},
          request : BOOLEAN] :
     /\ r.kind = "response" => (r.status = 200 /\ r.request)
     /\ r.kind = "error" => (r.status # 200 /\ (r.status # 0 => r.request))}

\* The line the interceptor's error handler writes to console.error.
LogLine(err) ==
  IF err.status # 0 THEN "API Error:"
  ELSE IF err.request THEN "API No Response:"
  ELSE "API Request Error:"

\* An error handler that returns the error, which resolves the promise.
OnRejected_Swallow(err) ==
  [f \in {"settled", "value"} |-> IF f = "settled" THEN "fulfilled" ELSE err]

\* The promise each handler of the response interceptor returns:
\* `return response` and `return Promise.reject(error)`.
OnFulfilled(response) ==
  [f \in {"settled", "value"} |-> IF f = "settled" THEN "fulfilled" ELSE response]
OnRejected(err) ==
  [f \in {"settled", "value"} |-> IF f = "settled" THEN "rejected" ELSE err]

\* A call through `api` settles and the response interceptor runs.
ApiSettle(r) ==
  /\ apiPending = Null
  /\ Len(apiReturned) < MaxApiCalls
  /\ IF r.kind = "response"
     THEN /\ apiLog' = apiLog
          /\ apiPending' = OnFulfilled(r)
     ELSE /\ apiLog' = Append(apiLog, LogLine(r))
          /\ apiPending' = OnRejected(r)
  /\ UNCHANGED <<storeVars, viewVars, timerVars, serverVars, netVars, page,
                 resultsVars, apiReturned>>

\* The caller's await resumes with what the interceptor returned.
ApiDeliver ==
  /\ apiPending # Null
  /\ apiReturned' = Append(apiReturned, apiPending)
  /\ apiPending' = Null
  /\ UNCHANGED <<storeVars, viewVars, timerVars, serverVars, netVars, page,
                 resultsVars, apiLog>>

\* The research job moves on at the server: pending, in_progress, then
\* completed or failed.
ServerAdvance(s, outcome) ==
  /\ srv[s] \in {"pending", "in_progress"}
  /\ srv' = [srv EXCEPT ![s] = IF srv[s] = "pending" THEN "in_progress" ELSE outcome]
  /\ UNCHANGED <<storeVars, viewVars, timerVars, serverEchoes, netVars>>
  /\ UNCHANGED <<page, resultsVars>>
  /\ UNCHANGED apiVars

Next ==
  \/ Mount
  \/ BeforeUnmount
  \/ \E topic \in Topics, depth \in DepthOptions : StartResearch(topic, depth)
  \/ \E m \in starts : StartResponse(m)
  \/ \E m \in starts : StartFail(m)
  \/ \E t \in Timers : Tick(t)
  \/ \E m \in fetches : PollResponse(m)
  \/ \E m \in fetches : PollErrorBody(m)
  \/ \E m \in fetches : PollFail(m)
  \/ \E list \in TopicLists : TopicsResponse(list)
  \/ TopicsFail
  \/ \E s \in Sessions, outcome \in Terminal : ServerAdvance(s, outcome)

Spec == Init /\ [][Next]_vars

\* The store's operations as the three pages drive them, without the
\* interval callbacks, which Spec covers.
NextStore ==
  \/ Mount
  \/ BeforeUnmount
  \/ \E topic \in Topics, depth \in DepthOptions : StartResearch(topic, depth)
  \/ \E m \in starts : StartResponse(m)
  \/ \E m \in starts : StartFail(m)
  \/ \E list \in TopicLists : TopicsResponse(list)
  \/ TopicsFail
  \/ HomeMount
  \/ \E urlId \in {0} \cup Sessions : ResultsMount(urlId)
  \/ \E m \in resultsReqs, list \in ResultLists : ResultsResponse(m, list)
  \/ \E m \in resultsReqs : ResultsFail(m)
  \/ \E id \in Sessions : ClickResult(id)
  \/ \E m \in resultFetches : ResultArrives(m)
  \/ \E m \in resultFetches : ResultErrorBody(m)
  \/ \E m \in resultFetches : ResultFail(m)

SpecStore == Init /\ [][NextStore]_vars

\* The research page left mounted, with a network that answers: every
\* scheduled interval keeps firing (setInterval), and every progress fetch
\* in flight is answered in the end.
NextLive ==
  \/ Mount
  \/ \E topic \in Topics, depth \in DepthOptions : StartResearch(topic, depth)
  \/ \E m \in starts : StartResponse(m)
  \/ \E t \in Timers : Tick(t)
  \/ \E m \in fetches : PollResponse(m)
  \/ \E list \in TopicLists : TopicsResponse(list)
  \/ \E s \in Sessions, outcome \in Terminal : ServerAdvance(s, outcome)

SpecLive ==
  /\ Init /\ [][NextLive]_vars
  /\ \A t \in Timers : WF_vars(Tick(t))
  /\ WF_vars(\E m \in fetches : PollResponse(m))

\* The `api` instance with its interceptors, called on its own: no view
\* and no store action imports it.
NextApi ==
  \/ \E r \in ApiResults : ApiSettle(r)
  \/ ApiDeliver

SpecApi == Init /\ [][NextApi]_vars

\* ------------------------------------------------------------- claims
Tracked == currentResearch # Null
ActiveTimers == {t \in Timers : timerActive[t]}

\* A step in which the response to the in-flight progress fetch m arrives.
Arrives(m) == m \in fetches /\ m \notin fetches'

\* C1 (as claimed): once a poller was cancelled, by beforeUnmount or by a
\* replacing startProgressPolling, the arrival of a response to a fetch it
\* had in flight leaves the tracked session as it was.
C1_CancelledResponseIgnored ==
  [][\A m \in fetches :
       (Arrives(m) /\ cancelled[m.timer] \in {"unmount", "replaced"})
         => currentResearch' = currentResearch]_vars

\* C2 (as claimed): once the tracked session is completed or failed, the
\* arrival of any progress response leaves every field of it unchanged.
C2_TerminalAbsorbing ==
  [][\A m \in fetches :
       (Arrives(m) /\ Tracked /\ StatusOf(currentResearch) \in Terminal)
         => currentResearch' = currentResearch]_vars

\* C3 (as claimed): while the tracked session keeps its id, its stored
\* status never moves backwards in pending < in_progress < {completed, failed}.
C3_StatusMonotone ==
  [][(Tracked /\ currentResearch' # Null
        /\ IdOf(currentResearch') = IdOf(currentResearch))
       => Rank(StatusOf(currentResearch')) >= Rank(StatusOf(currentResearch))]_vars

\* C4 (as claimed): when a response with a terminal status, completed or
\* failed, is applied to the store, the poller that fetched it is no
\* longer scheduled, so it issues no further fetch.
C4_TerminalStopsPoller ==
  [][\A m \in fetches :
       (Arrives(m) /\ StatusOf(m.data) \in Terminal
          /\ currentResearch' # currentResearch
          /\ StatusOf(currentResearch') = StatusOf(m.data))
         => ~timerActive'[m.timer]]_vars

\* C5 (as claimed): a response fetched for session id X is never merged
\* into a tracked session whose id is not X.
C5_ResponseBoundToId ==
  [][\A m \in fetches :
       (Arrives(m) /\ Tracked /\ IdOf(currentResearch) # m.sid)
         => currentResearch' = currentResearch]_vars

\* C6 (as claimed): in every reachable state at most one interval is
\* scheduled in the client.
C6_AtMostOnePoller == Cardinality(ActiveTimers) <= 1

\* C7: a handle that was scheduled when beforeUnmount cleared it issues no
\* progress fetch in any later step.
C7_NoTickAfterCancel ==
  [][\A m \in fetches' \ fetches : cancelled[m.timer] # "unmount"]_vars

\* C7 witness: beforeUnmount cancelled a poller that had ticked; the fetch
\* it issued is still in flight and the handle is off the schedule.
C7_Witness ==
  \E m \in fetches : cancelled[m.timer] = "unmount" /\ ~timerActive[m.timer]

\* The status the server's descriptor of a new session carries.
DescriptorStatus == Descriptor(1, "", 0)["status"]

\* Every poller the client ever scheduled has been cancelled, none of them
\* ticked, beforeUnmount tore the view down after a start had succeeded,
\* and no start request is under way.
CancelledBeforeFirstTick ==
  /\ Tracked
  /\ fetchCount = 0
  /\ view = 0
  /\ starts = {}
  /\ \E t \in Timers : cancelled[t] = "unmount"
  /\ \A t \in Timers : timerOwner[t] # 0 => cancelled[t] # "no"

\* C9: for every topic and depth the form can submit, once startSession has
\* succeeded and its poller was cancelled before its first tick, then, until
\* the view is mounted again or a new start is submitted, every step keeps
\* the tracked status equal to the descriptor's and issues no progress fetch.
C9_StartThenCancel ==
  [][(CancelledBeforeFirstTick /\ view' = view /\ starts' = starts)
       => /\ CancelledBeforeFirstTick'
          /\ fetches' = fetches
          /\ StatusOf(currentResearch) = DescriptorStatus
          /\ StatusOf(currentResearch') = DescriptorStatus]_vars

\* C9 witness: the poller was cancelled before its first tick and the job
\* has meanwhile completed at the server; the client has not noticed.
C9_Witness ==
  CancelledBeforeFirstTick /\ srv[IdOf(currentResearch)] = "completed"

\* C8 (as claimed): an instance that was torn down, also one torn down
\* while its start request was in flight, never issues a progress fetch.
C8_NoTickAfterTeardown ==
  [][\A m \in fetches' \ fetches : instState[m.inst] # "unmounted"]_vars

\* The states the end-to-end scenario ends in: the server's descriptors
\* carry only id, status and progress, every poll on the way was answered
\* with progress data, and the tracked session is completed.
EndToEndDone ==
  /\ ~serverEchoes /\ Tracked /\ StatusOf(currentResearch) = "completed"
  /\ ~Has(currentResearch, "error")

\* C10 (as claimed): at the end of the scenario the tracked session has the
\* topic and the depth the caller submitted.
C10_KeepsTopicAndDepth ==
  EndToEndDone =>
    /\ Has(currentResearch, "topic") /\ Has(currentResearch, "depth")
    /\ currentResearch["topic"] \in Topics \ {""}
    /\ currentResearch["depth"] \in {ParseInt(d) : d \in DepthOptions}

\* C10 (amended): at the end of the scenario the tracked session has exactly
\* the fields id, status, progress and completedTime, the id being that of
\* the session the server created last and the others those of the completed
\* response; it has no topic and no depth. The poller whose completed
\* response changed the store is off the schedule from that step on.
C10_EndToEnd ==
  /\ [](EndToEndDone =>
          /\ DOMAIN currentResearch = {"id", "status", "progress", "completedTime"}
          /\ IdOf(currentResearch) = NextSession - 1
          /\ currentResearch["progress"] = ProgressOf("completed")
          /\ currentResearch["completedTime"] = CompletedTime)
  /\ [][\A m \in fetches :
          (Arrives(m) /\ currentResearch' # currentResearch
             /\ currentResearch' = Spread(currentResearch, m.data)
             /\ StatusOf(m.data) = "completed"
             /\ StatusOf(currentResearch') = "completed")
            => ~timerActive'[m.timer]]_vars

\* C10 witness: two polls were issued and answered, the second with
\* completed; nothing is in flight and nothing is scheduled any more.
C10_Witness ==
  /\ EndToEndDone
  /\ fetchCount = 2 /\ fetches = {} /\ starts = {}
  /\ ActiveTimers = {}

\* C16 (as claimed): when the response to a progress fetch arrives, either
\* its progress data are applied or, the fetch having failed, the tick is
\* skipped: the tracked session and the store's error stay as they were
\* and the interval stays scheduled.
C16_FailedTickSkipped ==
  [][\A m \in fetches :
       Arrives(m) =>
         \/ currentResearch' = Spread(currentResearch, m.data)
         \/ /\ currentResearch' = currentResearch
            /\ error' = error
            /\ timerActive' = timerActive]_vars

\* C17 (as claimed): no interval is scheduled while the tracked session is
\* completed or failed, neither by mounted() nor after a start.
C17_NoPollerForTerminal ==
  [][\A t \in Timers :
       (~timerActive[t] /\ timerActive'[t])
         => StatusOf(currentResearch') \notin Terminal]_vars

\* A step in which start request m settles and the server has created no
\* session: the request failed.
StartFails(m) == m \in starts /\ m \notin starts' /\ srv' = srv

\* C11: when a start request fails, the store's error becomes the start
\* message and the caller's continuation does not run: no interval is
\* scheduled or cleared and the tracked session stays as it was.
C11_StartFailureReRaised ==
  [][\A m \in starts :
       StartFails(m) =>
         /\ error' = "Failed to start research"
         /\ timerVars' = timerVars
         /\ currentResearch' = currentResearch]_vars

\* C11 witness: the only start submitted so far has failed; its message is
\* in the store and nothing is scheduled.
C11_Witness ==
  /\ startCount = 1 /\ starts = {}
  /\ error = "Failed to start research"
  /\ ~Tracked /\ ActiveTimers = {}

\* C12 (as claimed): a submit that is turned away for its empty topic
\* leaves a report of the failure: an error is on record after it.
C12_RejectionReported ==
  [][(~rejected /\ rejected') => error' # "null"]_vars

\* Steps in which a topic request, or result-list request m, settles.
TopicsSettles == topicReqs' < topicReqs
ResultsSettles(m) == m \in resultsReqs /\ m \notin resultsReqs'

\* C13: when a topic request or a result-list request settles and does not
\* leave the error cleared, it has failed: both collections and the tracked
\* session are what they were and the error is the operation's message.
C13_LoadFailureKeepsState ==
  [][/\ (TopicsSettles /\ error' # "null")
          => /\ researchTopics' = researchTopics
             /\ researchResults' = researchResults
             /\ currentResearch' = currentResearch
             /\ error' = "Failed to fetch research topics"
     /\ \A m \in resultsReqs :
          (ResultsSettles(m) /\ error' # "null")
            => /\ researchTopics' = researchTopics
               /\ researchResults' = researchResults
               /\ currentResearch' = currentResearch
               /\ error' = "Failed to fetch research results"]_vars

\* C13 witness: a topic load has failed after both collections and the
\* tracked session had been filled.
C13_Witness ==
  /\ error = "Failed to fetch research topics"
  /\ researchTopics # <<>> /\ researchResults # <<>> /\ Tracked
  /\ topicReqs = 0

\* C14: when a topic request or a result-list request settles and does not
\* leave its failure message, it has succeeded: its collection is one of
\* the server's lists, the other collection is what it was, and the error
\* is cleared.
C14_LoadSuccessReplaces ==
  [][/\ (TopicsSettles /\ error' # "Failed to fetch research topics")
          => /\ researchTopics' \in TopicLists
             /\ researchResults' = researchResults
             /\ error' = "null"
     /\ \A m \in resultsReqs :
          (ResultsSettles(m) /\ error' # "Failed to fetch research results")
            => /\ researchResults' \in ResultLists
               /\ researchTopics' = researchTopics
               /\ error' = "null"]_vars

\* C14 witness: the results were loaded over a list already loaded, the
\* topics are loaded too, and the error is clear.
C14_Witness ==
  /\ researchResults = <<2, 1>> /\ researchTopics # <<>>
  /\ page = "results" /\ resultsReqs = {}
  /\ error = "null"

\* No store action is between its dispatch and its exit.
NoStoreOpInFlight == topicReqs = 0 /\ starts = {} /\ resultsReqs = {}

\* C15: whenever no store action is in flight the loading flag is down.
C15_LoadingReleased == NoStoreOpInFlight => ~loading

\* C15 witness: a topic load, a start and a result-list load have all
\* exited, the last of them on its error path.
C15_Witness ==
  /\ NoStoreOpInFlight
  /\ researchTopics # <<>> /\ Tracked
  /\ error = "Failed to fetch research results"

\* A step in which single-result fetch m settles.
ResultSettles(m) == m \in resultFetches /\ m \notin resultFetches'

\* C18: a step of viewResult, its issue by a click or its settling either
\* way, leaves the tracked session, the result list and the topics alone.
C18_FetchResultFrame ==
  [][(resultFetches' # resultFetches /\ resultsReqs' = resultsReqs)
       => /\ currentResearch' = currentResearch
          /\ researchResults' = researchResults
          /\ researchTopics' = researchTopics]_vars

\* C18 witness: the view holds a fetched result while a session is tracked
\* and the list is loaded.
C18_Witness ==
  /\ page = "results" /\ selectedResult = ResultBody(selectedId)
  /\ Tracked /\ researchResults # <<>>

\* C19 (as claimed): when a single-result fetch settles without handing
\* its view the result asked for, the store's error is set and the view
\* has no selected result.
C19_FetchResultFailure ==
  [][\A m \in resultFetches :
       (ResultSettles(m) /\ OnPage(m) /\ selectedResult' # ResultBody(m.id))
         => (error' # "null" /\ selectedResult' = Null)]_vars

\* The calls that are awaiting their response.
InFlight ==
  {c \in {"fetchResearchTopics"} : topicReqs > 0}
    \cup {c \in {"startResearch"} : starts # {}}
    \cup {c \in {"fetchResearchResults"} : resultsReqs # {}}
    \cup {c \in {"progress"} : fetches # {}}
    \cup {c \in {"viewResult"} : resultFetches # {}}

\* C20 (as claimed): every call awaiting its response goes through a
\* client with a timeout, so that it settles at the latest when the
\* timeout expires.
C20_EveryCallBounded == \A c \in InFlight : TimeoutOf(c) > 0

\* C24 (as claimed): the arrival of a progress response changes neither
\* the id nor the topic nor the depth of the tracked session.
C24_IdentityImmutable ==
  [][\A m \in fetches :
       (Arrives(m) /\ Tracked) =>
         \A f \in {"id", "topic", "depth"} :
           /\ Has(currentResearch', f) = Has(currentResearch, f)
           /\ Has(currentResearch, f) => currentResearch'[f] = currentResearch[f]]_vars

\* C25 (as claimed): a tracked session that has a completedTime has a
\* terminal status.
C25_CompletedTimeTerminal ==
  Has(currentResearch, "completedTime") => StatusOf(currentResearch) \in Terminal

\* C28 (as claimed): no interval has two progress fetches in flight.
C28_OneFetchPerPoller ==
  \A t \in Timers : Cardinality({m \in fetches : m.timer = t}) <= 1

\* C29 (as claimed): when a completed response arrives for a fetch of an
\* interval that was replaced, every other interval stays scheduled.
C29_CancelsOwnOnly ==
  [][\A m \in fetches :
       (Arrives(m) /\ cancelled[m.timer] = "replaced"
          /\ StatusOf(m.data) = "completed")
         => \A t \in Timers \ {m.timer} : timerActive[t] => timerActive'[t]]_vars

\* C30 (as claimed): while a topic load, a start or a result-list load is
\* in flight, the loading flag is up.
C30_LoadingWhileInFlight == ~NoStoreOpInFlight => loading

\* Every start request answered so far was answered with a descriptor.
AllAnsweredStarted == NextSession - 1 = startCount - Cardinality(starts)

\* C22 (as claimed): when the last outstanding start response arrives and
\* it answers a request issued before the most recent one, whose
\* descriptor the store has already recorded, it does not replace the
\* tracked session: after all responses the tracked session is that of
\* the start issued last.
C22_LastIssuedWins ==
  [][\A m \in starts :
       (/\ m \notin starts' /\ starts' = {} /\ srv' # srv
        /\ m.n < startCount
        /\ AllAnsweredStarted)
         => currentResearch' = currentResearch]_vars

\* The failure classes of the transport: a response was received; the
\* request was sent and no response came; neither.
ClassOf(err) ==
  CASE err.status # 0 -> "ServerError"
    [] err.status = 0 /\ err.request -> "NoResponse"
    [] err.status = 0 /\ ~err.request -> "RequestSetupError"
ClassLogged(line) ==
  CASE line = "API Error:" -> "ServerError"
    [] line = "API No Response:" -> "NoResponse"
    [] line = "API Request Error:" -> "RequestSetupError"
IsFailure(p) == p["value"].kind = "error"
Failures(ps) == SelectSeq(ps, IsFailure)
Handed == IF apiPending = Null THEN apiReturned ELSE Append(apiReturned, apiPending)

\* C27: every failure the interceptor has handed on, delivered to its
\* caller or about to be, is a rejected promise, never a fulfilled one;
\* the log holds one line per failure, in order, and the line is that of
\* the failure's one class. A failure is in the log by the time it is
\* handed on.
C27_ClassifiedLoggedRejected ==
  /\ \A k \in DOMAIN Handed :
       IsFailure(Handed[k]) => Handed[k]["settled"] = "rejected"
  /\ Len(apiLog) = Len(Failures(Handed))
  /\ \A k \in DOMAIN apiLog :
       ClassLogged(apiLog[k]) = ClassOf(Failures(Handed)[k]["value"])

\* C27 witness: a failure of each class was logged and returned.
C27_Witness ==
  /\ apiPending = Null
  /\ {ClassLogged(apiLog[k]) : k \in DOMAIN apiLog}
       = {"ServerError", "NoResponse", "RequestSetupError"}
  /\ Len(Failures(apiReturned)) = MaxApiCalls

\* C23: when the arrival of a progress response changes the tracked
\* session, the new session is the old one overlaid with the body that
\* arrived, be it progress data or an error body: it has the fields of
\* both, every field of the body with the body's value and every other
\* field with the value it had just before the arrival.
C23_MergeKeepsOtherFields ==
  [][\A m \in fetches :
       (Arrives(m) /\ currentResearch' # currentResearch) =>
         \E u \in {m.data, ErrorBody} :
           /\ DOMAIN currentResearch' = DOMAIN currentResearch \cup DOMAIN u
           /\ \A f \in DOMAIN currentResearch' :
                currentResearch'[f] = IF f \in DOMAIN u THEN u[f]
                                      ELSE currentResearch[f]]_vars

\* C23 witness: a progress response was merged into a session that has a
\* topic and a depth: the status and progress are the response's, the
\* topic and depth were kept.
C23_Witness ==
  /\ Has(currentResearch, "topic") /\ Has(currentResearch, "depth")
  /\ StatusOf(currentResearch) = "in_progress"
  /\ currentResearch["progress"] = ProgressOf("in_progress")

\* A tick of handle t can issue a progress fetch.
CanFetch(t) == ENABLED (Tick(t) /\ fetchCount' = fetchCount + 1)

\* C21: an interval that is scheduled goes off the schedule only in a step
\* that leaves the tracked status completed, unmounts the view or replaces
\* an instance's interval; a response or a failure that does none of
\* these leaves it scheduled, however many came before. As long as it is
\* scheduled and the tracked session is not completed, its tick issues a
\* fetch (up to the number of fetches explored).
C21_NoRetryCap ==
  /\ [][\A t \in Timers :
          (timerActive[t] /\ ~timerActive'[t]) =>
            \/ StatusOf(currentResearch') = "completed"
            \/ view # 0 /\ view' = 0
            \/ researchInterval' # researchInterval]_vars
  /\ [](\A t \in Timers :
          (timerActive[t] /\ Tracked /\ StatusOf(currentResearch) # "completed"
             /\ fetchCount < MaxFetches) => CanFetch(t))

\* C21 witness: every fetch explored has been issued and answered, none
\* brought a terminal status, and the poller is still scheduled.
C21_Witness ==
  /\ fetchCount = MaxFetches /\ fetches = {}
  /\ Tracked /\ StatusOf(currentResearch) \notin Terminal
  /\ ActiveTimers # {}
  /\ \A t \in Timers : cancelled[t] = "no" \/ ~timerActive[t]

\* The server has ended the tracked session's job, the view's interval is
\* scheduled and can still fetch, and no start or fetch is in flight.
TerminalAtServer ==
  /\ Tracked /\ IdOf(currentResearch) \in Sessions
  /\ srv[IdOf(currentResearch)] \in Terminal
  /\ view # 0 /\ researchInterval[view] # 0
  /\ timerActive[researchInterval[view]]
  /\ starts = {} /\ fetches = {}
  /\ fetchCount < MaxFetches

\* The tracked status is the server's terminal status and no interval is
\* scheduled.
SettledAndStopped ==
  /\ IdOf(currentResearch) \in Sessions
  /\ StatusOf(currentResearch) = srv[IdOf(currentResearch)]
  /\ ActiveTimers = {}

StartIssued == startCount' = startCount + 1

\* C31: a start request that fails changes only the store's error and
\* loading fields: neither the step that issues it nor the step in which it
\* fails changes the tracked session, the topics, the result summaries or
\* any interval (scheduled or not, its owner, the instances' handles).
C31_StartFailureFrame ==
  [][\A m \in starts \cup starts' :
       (StartIssued \/ StartFails(m)) =>
         /\ currentResearch' = currentResearch
         /\ researchTopics' = researchTopics
         /\ researchResults' = researchResults
         /\ timerVars' = timerVars]_vars

\* C31 witness: of two starts the first was answered with a session and the
\* second has failed; the first session is still tracked with its interval
\* scheduled, next to loaded topics and result summaries.
C31_Witness ==
  /\ startCount = 2 /\ starts = {} /\ NextSession = 2
  /\ error = "Failed to start research" /\ ~loading
  /\ Tracked /\ IdOf(currentResearch) = 1
  /\ ActiveTimers # {}
  /\ researchTopics # <<>> /\ researchResults # <<>>

====
